---- MODULE Spec2Model ----
(***************************************************************************)
(* Model of the Gitlab platform layer of danger-js:                        *)
(*   - GitlabAPI.getPullRequestChanges  (cursor pagination)                *)
(*   - GitlabAPI.getPullRequestInfo     (memoized PR metadata)             *)
(*   - bitBucketServerChangesToGitJSONDSL   (change-list normalization)    *)
(*   - bitBucketServerDiffToGitStructuredDiff (structured-diff flattening) *)
(*   - bitBucketServerCommitToGitCommit     (commit normalization)         *)
(* Each component has its own specification (SpecPaging, SpecInfo,         *)
(* SpecChanges, SpecDiff, SpecCommit) over the shared variables; the other *)
(* components stay idle in it.  Spec runs them all side by side.           *)
(*                                                                         *)
(* JavaScript values are tagged where their kind matters: null, undefined  *)
(* and numbers are [tag |-> "null"], [tag |-> "undefined"] and             *)
(* [tag |-> "number", n |-> k].                                            *)
(***************************************************************************)
EXTENDS Integers, Sequences, FiniteSets, TLC

VARIABLES
  \* ---- GitlabAPI.getPullRequestChanges: one call at a time, repeatable
  cpc,            \* position of the async call: "idle", "awaiting", "returned", "threw"
  nextPageStart,  \* local `nextPageStart`
  values,         \* local `values` (the accumulator)
  changesPromise, \* what the returned promise settled with
  sent,           \* the `start` of every request the current call has issued, in order
  pages,          \* every response the current call has received, in order
  runs,           \* number of calls begun so far
  settled,        \* how each finished call's promise settled, in order: "ok" / "error"
  \* ---- GitlabAPI.getPullRequestInfo: several calls on one client instance
  pr,             \* the field `this.pr`
  ipc,            \* per call: "idle", "awaiting", "returned", "threw"
  infoPromise,    \* per call: what its promise settled with
  infoSent,       \* number of GET requests issued for the PR metadata
  infoReplies,    \* the responses delivered to getPullRequestInfo calls, in order
  \* ---- bitBucketServerChangesToGitJSONDSL
  changes,        \* argument `changes`
  commits,        \* argument `commits`
  git,            \* the reduce accumulator `git`
  chIdx,          \* number of records the reduce callback has been applied to
  chStatus,       \* "idle", "running", "returned", "threw"
  chResult,       \* the value returned / the error thrown
  \* ---- bitBucketServerDiffToGitStructuredDiff
  diffs,          \* argument `diffs`
  dStatus,        \* "idle", "returned"
  dResult,        \* the returned GitStructuredDiff
  \* ---- bitBucketServerCommitToGitCommit
  bbsCommit,      \* argument `bbsCommit`
  repoMetadata,   \* argument `repoMetadata`
  host,           \* argument `host`
  cStatus,        \* "idle", "returned"
  cResult         \* the returned GitCommit

pagingVars == <<cpc, nextPageStart, values, changesPromise, sent, pages, runs, settled>>
infoVars   == <<pr, ipc, infoPromise, infoSent, infoReplies>>
changeVars == <<changes, commits, git, chIdx, chStatus, chResult>>
diffVars   == <<diffs, dStatus, dResult>>
commitVars == <<bbsCommit, repoMetadata, host, cStatus, cResult>>
vars == <<pagingVars, infoVars, changeVars, diffVars, commitVars>>

----------------------------------------------------------------------------
\* JavaScript values

Null      == [tag |-> "null"]
Undefined == [tag |-> "undefined"]
Num(n)    == [tag |-> "number", n |-> n]
NoValue   == [kind |-> "pending"]

\* arrays.reduce((a, b) => a.concat(b), []): the arrays joined in order
RECURSIVE Flatten(_)
Flatten(ss) == IF ss = <<>> THEN <<>> ELSE Head(ss) \o Flatten(Tail(ss))

SeqsUpTo(S, n) == UNION {[1..k -> S] : k \in 0..n}

----------------------------------------------------------------------------
\* HTTP responses (node-fetch Response) and throwIfNotOk

\* Response.ok: the status is in the range 200-299
ResponseOk(res) == res.status >= 200 /\ res.status <= 299

CredentialsHint ==
  " (Have you set DANGER_GITLAB_USERNAME and DANGER_GITLAB_PASSWORD or DANGER_GITLAB_TOKEN?)"

NoThrow == <<>>

\* a plausible slip: only client errors are treated as failures
throwIfNotOk_Only4xx(res) ==
  IF res.status >= 400 /\ res.status < 500
    THEN <<res.status, " - ", res.statusText, CredentialsHint>>
    ELSE NoThrow

\* The message of the Error thrown for `res`, NoThrow when nothing is thrown.
\* The template string `${res.status} - ${res.statusText}` is kept as its parts.
throwIfNotOk(res) ==
  IF ~ResponseOk(res)
    THEN LET message == <<res.status, " - ", res.statusText>>
         IN  IF res.status >= 400 /\ res.status < 500
               THEN Append(message, CredentialsHint)
               ELSE message
    ELSE NoThrow

----------------------------------------------------------------------------
\* GitlabAPI.getPullRequestChanges

MaxPages == 3   \* responses one call may receive
MaxRuns  == 2   \* calls of getPullRequestChanges on the client

\* GitlabChangesValue records carried by the pages (opaque here)
PageValues == {<<>>, <<"a">>, <<"b", "a">>}
\* what a page may carry as nextPageStart: null, an offset, or no field at all
Offsets == {Num(0), Num(2)}
PageNexts == {Null, Undefined} \cup Offsets

ChangePages == [values : PageValues, nextPageStart : PageNexts]

\* The body of a failed response is never read; it is fixed.
ChangesResponses ==
  {[status |-> 200, statusText |-> "OK", body |-> p] : p \in ChangePages}
    \cup {[status |-> s.status, statusText |-> s.text,
           body |-> [values |-> <<>>, nextPageStart |-> Null]] :
            s \in {[status |-> 404, text |-> "Not Found"],
                   [status |-> 500, text |-> "Internal Server Error"]}}

\* res.json()
json(res) == res.body

\* `${this.getPRBasePath()}/changes?start=${nextPageStart}`: the request is
\* identified by the value interpolated after start=
ChangesRequest(start) == start

\* a plausible slip: the page replaces the accumulator
Accumulate_Overwrite(vals, data) == data.values

\* values = values.concat(data.values)
Accumulate(vals, data) == vals \o data.values

\* while (nextPageStart !== null)
LoopContinues(nps) == nps # Null

\* let nextPageStart = 0; let values = []; first pass of the do-loop up to
\* `await this.get(path)`
CallGetPullRequestChanges ==
  /\ cpc \in {"idle", "returned", "threw"}
  /\ runs < MaxRuns
  /\ runs' = runs + 1
  /\ nextPageStart' = Num(0)
  /\ values' = <<>>
  /\ sent' = <<ChangesRequest(nextPageStart')>>
  /\ pages' = <<>>
  /\ changesPromise' = NoValue
  /\ cpc' = "awaiting"
  /\ UNCHANGED <<settled, infoVars, changeVars, diffVars, commitVars>>

\* the awaited response arrives: throwIfNotOk, accumulate, loop test, and
\* either the next request or the return
ReceiveChangesPage(res) ==
  /\ cpc = "awaiting"
  /\ Len(pages) < MaxPages
  /\ pages' = Append(pages, res)
  /\ IF throwIfNotOk(res) # NoThrow
       THEN /\ cpc' = "threw"
            /\ changesPromise' = [kind |-> "error", message |-> throwIfNotOk(res)]
            /\ settled' = Append(settled, "error")
            /\ UNCHANGED <<nextPageStart, values, sent>>
       ELSE LET data == json(res) IN
            /\ values' = Accumulate(values, data)
            /\ nextPageStart' = data.nextPageStart
            /\ IF LoopContinues(nextPageStart')
                 THEN /\ sent' = Append(sent, ChangesRequest(nextPageStart'))
                      /\ cpc' = "awaiting"
                      /\ UNCHANGED <<changesPromise, settled>>
                 ELSE /\ cpc' = "returned"
                      /\ changesPromise' = [kind |-> "ok", value |-> values']
                      /\ settled' = Append(settled, "ok")
                      /\ UNCHANGED sent
  /\ UNCHANGED <<runs, infoVars, changeVars, diffVars, commitVars>>

PagingIdle ==
  /\ cpc = "idle" /\ nextPageStart = Undefined /\ values = <<>>
  /\ changesPromise = NoValue /\ sent = <<>> /\ pages = <<>> /\ runs = 0
  /\ settled = <<>>

----------------------------------------------------------------------------
\* GitlabAPI.getPullRequestInfo

MaxInfoCalls == 3   \* calls of getPullRequestInfo on the client instance

InfoCalls == 1..MaxInfoCalls

\* GitlabPRDSL objects the platform may answer with
PRs == {[tag |-> "object", id |-> "pr-v1"], [tag |-> "object", id |-> "pr-v2"]}

InfoResponses ==
  {[status |-> 200, statusText |-> "OK", body |-> p] : p \in PRs}
    \cup {[status |-> 404, statusText |-> "Not Found", body |-> Null],
          [status |-> 500, statusText |-> "Internal Server Error", body |-> Null]}

\* JavaScript truthiness of what `this.pr` can hold
Truthy(v) == v \notin {Undefined, Null}

\* if (this.pr) { return this.pr }; otherwise the GET is issued and awaited
CallGetPullRequestInfo(c) ==
  /\ ipc[c] = "idle"
  /\ IF Truthy(pr)
       THEN /\ ipc' = [ipc EXCEPT ![c] = "returned"]
            /\ infoPromise' = [infoPromise EXCEPT ![c] = [kind |-> "ok", value |-> pr]]
            /\ UNCHANGED infoSent
       ELSE /\ infoSent' = infoSent + 1
            /\ ipc' = [ipc EXCEPT ![c] = "awaiting"]
            /\ UNCHANGED infoPromise
  /\ UNCHANGED <<pr, infoReplies, pagingVars, changeVars, diffVars, commitVars>>

\* the awaited response arrives: throwIfNotOk(res); this.pr = prDSL; return prDSL
ReceivePullRequestInfo(c, res) ==
  /\ ipc[c] = "awaiting"
  /\ infoReplies' = Append(infoReplies, res)
  /\ IF throwIfNotOk(res) # NoThrow
       THEN /\ ipc' = [ipc EXCEPT ![c] = "threw"]
            /\ infoPromise' = [infoPromise EXCEPT
                                 ![c] = [kind |-> "error", message |-> throwIfNotOk(res)]]
            /\ UNCHANGED pr
       ELSE LET prDSL == json(res) IN
            /\ pr' = prDSL
            /\ ipc' = [ipc EXCEPT ![c] = "returned"]
            /\ infoPromise' = [infoPromise EXCEPT ![c] = [kind |-> "ok", value |-> prDSL]]
  /\ UNCHANGED <<infoSent, pagingVars, changeVars, diffVars, commitVars>>

InfoIdle ==
  /\ pr = Undefined
  /\ ipc = [c \in InfoCalls |-> "idle"]
  /\ infoPromise = [c \in InfoCalls |-> NoValue]
  /\ infoSent = 0
  /\ infoReplies = <<>>

----------------------------------------------------------------------------
\* bitBucketServerChangesToGitJSONDSL

MaxChanges == 3   \* records in the `changes` argument

Paths == {"a", "b"}
KnownChangeTypes == {"ADD", "MODIFY", "MOVE", "DELETE"}

\* GitlabChangesValue: path (and srcPath of a MOVE) are objects whose
\* `toString` field holds the path text; "RENAME" stands for any other tag
ChangeRecords ==
  {[type |-> t, path |-> [toString |-> p]] :
      t \in {"ADD", "MODIFY", "DELETE", "RENAME"}, p \in Paths}
    \cup {[type |-> "MOVE", path |-> [toString |-> p], srcPath |-> [toString |-> q]] :
            p \in Paths, q \in Paths}

CommitLists == {<<>>, <<"commit-1">>}

UnhandledChangeType == [kind |-> "error", message |-> "Unhandled change type"]

\* the initial value of the reduce
InitialGit(cs) ==
  [modified_files |-> <<>>, created_files |-> <<>>, deleted_files |-> <<>>, commits |-> cs]

\* a plausible slip: an unknown type is skipped
reducer_SkipUnknown(g, value) ==
  CASE value.type = "ADD" ->
         [g EXCEPT !.created_files = Append(@, value.path.toString)]
    [] value.type = "MODIFY" ->
         [g EXCEPT !.modified_files = Append(@, value.path.toString)]
    [] value.type = "MOVE" ->
         [g EXCEPT !.created_files = Append(@, value.path.toString),
                   !.deleted_files = Append(@, value.srcPath.toString)]
    [] value.type = "DELETE" ->
         [g EXCEPT !.deleted_files = Append(@, value.path.toString)]
    [] OTHER -> g

\* a plausible slip: a MOVE is recorded as a modification of the destination
reducer_MoveAsModify(g, value) ==
  CASE value.type = "ADD" ->
         [g EXCEPT !.created_files = Append(@, value.path.toString)]
    [] value.type \in {"MODIFY", "MOVE"} ->
         [g EXCEPT !.modified_files = Append(@, value.path.toString)]
    [] value.type = "DELETE" ->
         [g EXCEPT !.deleted_files = Append(@, value.path.toString)]
    [] OTHER -> UnhandledChangeType

\* a plausible slip: new entries are put in front of the list
reducer_Prepend(g, value) ==
  CASE value.type = "ADD" ->
         [g EXCEPT !.created_files = <<value.path.toString>> \o @]
    [] value.type = "MODIFY" ->
         [g EXCEPT !.modified_files = <<value.path.toString>> \o @]
    [] value.type = "MOVE" ->
         [g EXCEPT !.created_files = <<value.path.toString>> \o @,
                   !.deleted_files = <<value.srcPath.toString>> \o @]
    [] value.type = "DELETE" ->
         [g EXCEPT !.deleted_files = <<value.path.toString>> \o @]
    [] OTHER -> UnhandledChangeType

\* the reduce callback: the next accumulator, or the error it throws
reducer(g, value) ==
  CASE value.type = "ADD" ->
         [g EXCEPT !.created_files = Append(@, value.path.toString)]
    [] value.type = "MODIFY" ->
         [g EXCEPT !.modified_files = Append(@, value.path.toString)]
    [] value.type = "MOVE" ->
         [g EXCEPT !.created_files = Append(@, value.path.toString),
                   !.deleted_files = Append(@, value.srcPath.toString)]
    [] value.type = "DELETE" ->
         [g EXCEPT !.deleted_files = Append(@, value.path.toString)]
    [] OTHER -> UnhandledChangeType

\* changes.reduce(..., initialValue) begins
CallChangesToGitJSONDSL ==
  /\ chStatus = "idle"
  /\ git' = InitialGit(commits)
  /\ chIdx' = 0
  /\ chStatus' = "running"
  /\ UNCHANGED <<changes, commits, chResult, pagingVars, infoVars, diffVars, commitVars>>

\* the callback is applied to the next record; a throw ends the call
ReduceStep ==
  /\ chStatus = "running"
  /\ chIdx < Len(changes)
  /\ LET next == reducer(git, changes[chIdx + 1]) IN
       IF next = UnhandledChangeType
         THEN /\ chStatus' = "threw"
              /\ chResult' = next
              /\ UNCHANGED <<git, chIdx>>
         ELSE /\ git' = next
              /\ chIdx' = chIdx + 1
              /\ UNCHANGED <<chStatus, chResult>>
  /\ UNCHANGED <<changes, commits, pagingVars, infoVars, diffVars, commitVars>>

\* every record has been folded: the accumulator is returned
ReduceReturn ==
  /\ chStatus = "running"
  /\ chIdx = Len(changes)
  /\ chStatus' = "returned"
  /\ chResult' = [kind |-> "ok", value |-> git]
  /\ UNCHANGED <<changes, commits, git, chIdx, pagingVars, infoVars, diffVars, commitVars>>

ChangesIdle ==
  /\ changes = <<>> /\ commits = <<>> /\ git = NoValue
  /\ chIdx = 0 /\ chStatus = "idle" /\ chResult = NoValue

----------------------------------------------------------------------------
\* bitBucketServerDiffToGitStructuredDiff

MaxNodes == 6   \* diffs + hunks + segments + lines in the `diffs` argument

Str(s) == [tag |-> "string", s |-> s]
Arr(items) == [tag |-> "array", items |-> items]

\* JavaScript `a && b`
AndAlso(a, b) == IF Truthy(a) THEN b ELSE a

SegmentTypes == {"ADDED", "CONTEXT", "REMOVED", "MOVED"}   \* "MOVED": any other tag

DiffLines ==
  {[line |-> "x", source |-> Null, destination |-> Num(5)],
   [line |-> "y", source |-> Num(3), destination |-> Null]}

\* a diff before any hunk is added: both sides present, an added file (no
\* source), or no `hunks` field at all
BareDiffs ==
  {[source |-> [toString |-> Str("old")], destination |-> [toString |-> Str("new")],
    hunks |-> Arr(<<>>)],
   [source |-> Undefined, destination |-> [toString |-> Str("new")], hunks |-> Arr(<<>>)],
   [source |-> [toString |-> Str("old")], destination |-> [toString |-> Str("new")],
    hunks |-> Undefined]}

\* The argument is put together node by node: a new diff, a new hunk in the
\* last diff, a new segment in the last hunk, a new line in the last segment.
HasHunks(ds) == ds # <<>> /\ ds[Len(ds)].hunks # Undefined
HasSegments(ds) == HasHunks(ds) /\ ds[Len(ds)].hunks.items # <<>>
HasLines(ds) ==
  /\ HasSegments(ds)
  /\ LET hs == ds[Len(ds)].hunks.items IN hs[Len(hs)].segments # <<>>

WithHunk(ds) ==
  [ds EXCEPT ![Len(ds)].hunks.items = Append(@, [segments |-> <<>>])]
WithSegment(ds, t) ==
  LET hs == ds[Len(ds)].hunks.items IN
  [ds EXCEPT ![Len(ds)].hunks.items[Len(hs)].segments =
                Append(@, [type |-> t, lines |-> <<>>])]
WithLine(ds, l) ==
  LET hs == ds[Len(ds)].hunks.items
      ss == hs[Len(hs)].segments
  IN  [ds EXCEPT ![Len(ds)].hunks.items[Len(hs)].segments[Len(ss)].lines = Append(@, l)]

Grown(ds) ==
  {Append(ds, d) : d \in BareDiffs}
    \cup (IF HasHunks(ds) THEN {WithHunk(ds)} ELSE {})
    \cup (IF HasSegments(ds) THEN {WithSegment(ds, t) : t \in SegmentTypes} ELSE {})
    \cup (IF HasLines(ds) THEN {WithLine(ds, l) : l \in DiffLines} ELSE {})

\* number of diffs, hunks, segments and lines in the argument
RECURSIVE SumOver(_, _)
SumOver(f(_), seq) == IF seq = <<>> THEN 0 ELSE f(Head(seq)) + SumOver(f, Tail(seq))
SegmentSize(segment) == 1 + Len(segment.lines)
HunkSize(hunk) == 1 + SumOver(SegmentSize, hunk.segments)
DiffSize(diff) ==
  1 + (IF diff.hunks = Undefined THEN 0 ELSE SumOver(HunkSize, diff.hunks.items))
DiffsSize(ds) == SumOver(DiffSize, ds)

\* the caller puts the `diffs` argument together
GrowDiffs ==
  /\ dStatus = "idle"
  /\ DiffsSize(diffs) < MaxNodes
  /\ diffs' \in Grown(diffs)
  /\ UNCHANGED <<dStatus, dResult, pagingVars, infoVars, changeVars, commitVars>>

\* array.map(f)
Map(f(_), seq) == [i \in 1..Len(seq) |-> f(seq[i])]

\* segmentValues[segment.type]: a property lookup, undefined for a missing key
segmentValues(t) ==
  CASE t = "ADDED" -> Str("add")
    [] t = "CONTEXT" -> Str("normal")
    [] t = "REMOVED" -> Str("del")
    [] OTHER -> Undefined

\* segment.lines.map(line => ({...}))
SegmentChanges(segment) ==
  LET change(line) ==
        [type |-> segmentValues(segment.type),
         content |-> line.line,
         sourceLine |-> line.source,
         destinationLine |-> line.destination]
  IN  Map(change, segment.lines)

\* a plausible slip: the segments are concatenated back to front
HunkToChunk_Reversed(hunk) ==
  LET n == Len(hunk.segments)
      per == [i \in 1..n |-> SegmentChanges(hunk.segments[n + 1 - i])]
  IN  [changes |-> Flatten(per)]

\* hunk => ({ changes: hunk.segments.map(...).reduce((a, b) => a.concat(b), []) })
HunkToChunk(hunk) ==
  [changes |-> Flatten(Map(SegmentChanges, hunk.segments))]

\* diff => ({ from, to, chunks })
DiffToStructured(diff) ==
  [from |-> AndAlso(diff.source, diff.source.toString),
   to |-> AndAlso(diff.destination, diff.destination.toString),
   chunks |-> AndAlso(diff.hunks, Arr(Map(HunkToChunk, diff.hunks.items)))]

\* diffs.map(diff => ...)
bitBucketServerDiffToGitStructuredDiff(ds) == Map(DiffToStructured, ds)

\* the function is applied to its argument and returns
CallDiffToGitStructuredDiff ==
  /\ dStatus = "idle"
  /\ dResult' = [kind |-> "ok", value |-> bitBucketServerDiffToGitStructuredDiff(diffs)]
  /\ dStatus' = "returned"
  /\ UNCHANGED <<diffs, pagingVars, infoVars, changeVars, commitVars>>

DiffIdle == diffs = <<>> /\ dStatus = "idle" /\ dResult = NoValue

----------------------------------------------------------------------------
\* bitBucketServerCommitToGitCommit

MaxParents == 2   \* parents of the commit

\* new Date(ms).toISOString(): the UTC calendar fields of an epoch-millisecond
\* count (the text is YYYY-MM-DDTHH:mm:ss.sssZ of these fields)
toISOString(ms) ==
  LET days == ms \div 86400000
      rest == ms % 86400000
      z    == days + 719468
      era  == z \div 146097
      doe  == z - era * 146097
      yoe  == (doe - doe \div 1460 + doe \div 36524 - doe \div 146096) \div 365
      doy  == doe - (365 * yoe + yoe \div 4 - yoe \div 100)
      mp   == (5 * doy + 2) \div 153
      d    == doy - (153 * mp + 2) \div 5 + 1
      m    == IF mp < 10 THEN mp + 3 ELSE mp - 9
      y    == yoe + era * 400 + (IF m <= 2 THEN 1 ELSE 0)
  IN  [year |-> y, month |-> m, day |-> d,
       hours |-> rest \div 3600000,
       minutes |-> (rest % 3600000) \div 60000,
       seconds |-> (rest % 60000) \div 1000,
       milliseconds |-> rest % 1000]

\* epoch milliseconds the platform may report (kept below 2^31)
Timestamps == {-1, 0, 86400000, 2147483647}

Persons ==
  {[name |-> "ann", emailAddress |-> "ann@example.com"],
   [name |-> "bob", emailAddress |-> "bob@example.com"]}

Shas == {"p1", "p2"}

\* GitlabCommit; `committer` may be missing
PlatformCommits ==
  {[id |-> "c0", parents |-> ps, author |-> a, authorTimestamp |-> at,
    committer |-> c, committerTimestamp |-> ct, message |-> "msg"] :
      ps \in SeqsUpTo({[id |-> p] : p \in Shas}, MaxParents),
      a \in Persons, at \in Timestamps,
      c \in {[name |-> p.name, emailAddress |-> p.emailAddress, tag |-> "object"] :
               p \in Persons} \cup {Undefined},
      ct \in Timestamps}

\* a plausible slip: the committer date is taken from the author timestamp
CommitterOf_AuthorDate(commit) ==
  IF Truthy(commit.committer)
    THEN [email |-> commit.committer.emailAddress,
          name |-> commit.committer.name,
          date |-> toISOString(commit.authorTimestamp)]
    ELSE [email |-> commit.author.emailAddress,
          name |-> commit.author.name,
          date |-> toISOString(commit.authorTimestamp)]

\* committer: bbsCommit.committer ? {...} : {...}
CommitterOf(commit) ==
  IF Truthy(commit.committer)
    THEN [email |-> commit.committer.emailAddress,
          name |-> commit.committer.name,
          date |-> toISOString(commit.committerTimestamp)]
    ELSE [email |-> commit.author.emailAddress,
          name |-> commit.author.name,
          date |-> toISOString(commit.authorTimestamp)]

\* `${host}/${repoMetadata.repoSlug}/commits/${bbsCommit.id}`, kept as its parts
bitBucketServerCommitToGitCommit(commit, meta, h) ==
  LET url == <<h, "/", meta.repoSlug, "/commits/", commit.id>>
  IN  [sha |-> commit.id,
       parents |-> Map(LAMBDA p : p.id, commit.parents),
       author |-> [email |-> commit.author.emailAddress,
                   name |-> commit.author.name,
                   date |-> toISOString(commit.authorTimestamp)],
       committer |-> CommitterOf(commit),
       message |-> commit.message,
       tree |-> Null,
       url |-> url]

\* the function is applied to its arguments and returns
CallCommitToGitCommit ==
  /\ cStatus = "idle"
  /\ cResult' = [kind |-> "ok",
                 value |-> bitBucketServerCommitToGitCommit(bbsCommit, repoMetadata, host)]
  /\ cStatus' = "returned"
  /\ UNCHANGED <<bbsCommit, repoMetadata, host, pagingVars, infoVars, changeVars, diffVars>>

CommitIdle ==
  /\ bbsCommit = [id |-> "c0", parents |-> <<>>,
                  author |-> [name |-> "ann", emailAddress |-> "ann@example.com"],
                  authorTimestamp |-> 0, committer |-> Undefined,
                  committerTimestamp |-> 0, message |-> "msg"]
  /\ repoMetadata = [repoSlug |-> "group/project", pullRequestID |-> "1"]
  /\ host = "https://gitlab.example.com"
  /\ cStatus = "idle"
  /\ cResult = NoValue

----------------------------------------------------------------------------
\* Specifications

InitPaging == PagingIdle /\ InfoIdle /\ ChangesIdle /\ DiffIdle /\ CommitIdle
NextPaging ==
  \/ CallGetPullRequestChanges
  \/ \E res \in ChangesResponses : ReceiveChangesPage(res)
SpecPaging == InitPaging /\ [][NextPaging]_vars

InitInfo == InitPaging
NextInfo ==
  \/ \E c \in InfoCalls : CallGetPullRequestInfo(c)
  \/ \E c \in InfoCalls, res \in InfoResponses : ReceivePullRequestInfo(c, res)
SpecInfo == InitInfo /\ [][NextInfo]_vars

InitChanges ==
  /\ PagingIdle /\ InfoIdle /\ DiffIdle /\ CommitIdle
  /\ changes \in SeqsUpTo(ChangeRecords, MaxChanges)
  /\ commits \in CommitLists
  /\ git = NoValue /\ chIdx = 0 /\ chStatus = "idle" /\ chResult = NoValue
NextChanges == CallChangesToGitJSONDSL \/ ReduceStep \/ ReduceReturn
SpecChanges == InitChanges /\ [][NextChanges]_vars

InitDiff == InitPaging
NextDiff == GrowDiffs \/ CallDiffToGitStructuredDiff
SpecDiff == InitDiff /\ [][NextDiff]_vars

InitCommit ==
  /\ PagingIdle /\ InfoIdle /\ ChangesIdle /\ DiffIdle
  /\ bbsCommit \in PlatformCommits
  /\ repoMetadata = [repoSlug |-> "group/project", pullRequestID |-> "1"]
  /\ host = "https://gitlab.example.com"
  /\ cStatus = "idle" /\ cResult = NoValue
NextCommit == CallCommitToGitCommit
SpecCommit == InitCommit /\ [][NextCommit]_vars

\* the whole layer: every component, each with its arguments drawn
Init ==
  /\ PagingIdle /\ InfoIdle /\ DiffIdle
  /\ changes \in SeqsUpTo(ChangeRecords, MaxChanges)
  /\ commits \in CommitLists
  /\ git = NoValue /\ chIdx = 0 /\ chStatus = "idle" /\ chResult = NoValue
  /\ bbsCommit \in PlatformCommits
  /\ repoMetadata = [repoSlug |-> "group/project", pullRequestID |-> "1"]
  /\ host = "https://gitlab.example.com"
  /\ cStatus = "idle" /\ cResult = NoValue
Next == NextPaging \/ NextInfo \/ NextChanges \/ NextDiff \/ NextCommit
Spec == Init /\ [][Next]_vars

----------------------------------------------------------------------------
\* Properties of getPullRequestChanges (SpecPaging)

AllPagesOk == \A k \in 1..Len(pages) : ResponseOk(pages[k])
PageValuesOf(k) == pages[k].body.values
PageNextOf(k) == pages[k].body.nextPageStart
ReceivedValues == Flatten([k \in 1..Len(pages) |-> PageValuesOf(k)])

\* C1: when every page was successful, the call returns the concatenation of
\* the pages' values in page order, has issued exactly one request per page,
\* one after another, the first with start=0 and each later one with the
\* nextPageStart of the page before it.
C1_ReturnsAllPagesInOrder ==
  /\ Len(sent) - Len(pages) \in {0, 1}
  /\ (cpc = "returned" /\ AllPagesOk) =>
       /\ changesPromise = [kind |-> "ok", value |-> ReceivedValues]
       /\ Len(sent) = Len(pages)
       /\ sent[1] = Num(0)
       /\ \A k \in 2..Len(sent) : sent[k] = PageNextOf(k - 1)
       /\ \A k \in 1..Len(pages) : (PageNextOf(k) = Null) <=> (k = Len(pages))

C1_Witness ==
  /\ cpc = "returned"
  /\ Len(pages) = 3
  /\ sent = <<Num(0), Num(2), Num(0)>>
  /\ changesPromise = [kind |-> "ok", value |-> <<"b", "a", "a", "b", "a">>]

\* C2: a non-success response ends the call with an error carrying status and
\* status text, whatever was accumulated; no value is returned, no further
\* request is issued, and every call starts from start=0 with an accumulator
\* holding only its own pages.
C2_ErrorAbortsWholeCall ==
  /\ \A k \in 1..Len(pages) :
       ~ResponseOk(pages[k]) =>
          /\ k = Len(pages)
          /\ Len(sent) = k
          /\ cpc = "threw"
          /\ changesPromise.kind = "error"
          /\ DOMAIN changesPromise = {"kind", "message"}
          /\ changesPromise.message[1] = pages[k].status
          /\ changesPromise.message[3] = pages[k].statusText
  /\ (cpc = "threw") => (settled[Len(settled)] = "error" /\ ~AllPagesOk)
  /\ (sent # <<>>) => (sent[1] = Num(0))
  /\ (cpc = "awaiting") => (values = ReceivedValues)

C2_Witness ==
  /\ runs = 2
  /\ settled = <<"error", "error">>
  /\ cpc = "threw"
  /\ Len(pages) = 3
  /\ values = <<"a", "b", "a">>
  /\ changesPromise.message[1] = 500

\* C9: the loop stops at the first page whose nextPageStart is null or absent
\* and issues no request after that page.
C9_StopsAtNullOrAbsent ==
  \A k \in 1..Len(pages) :
    (ResponseOk(pages[k]) /\ PageNextOf(k) \in {Null, Undefined}) =>
       /\ cpc = "returned"
       /\ Len(sent) = k
       /\ Len(pages) = k

----------------------------------------------------------------------------
\* Properties of getPullRequestInfo (SpecInfo)

AllInfoRepliesOk == \A k \in 1..Len(infoReplies) : ResponseOk(infoReplies[k])

\* C3: with successful responses only, any number of calls in any
\* interleaving performs at most one network request for the PR metadata,
\* and every call returns the value cached by the first.
C3_AtMostOneFetch ==
  AllInfoRepliesOk =>
    /\ infoSent <= 1
    /\ \A c \in InfoCalls :
         ipc[c] = "returned" => infoPromise[c].value = infoReplies[1].body

----------------------------------------------------------------------------
\* Properties of bitBucketServerChangesToGitJSONDSL (SpecChanges)

TypesOf(recs) == {recs[i].type : i \in 1..Len(recs)}
Count(recs, t) == Cardinality({i \in 1..Len(recs) : recs[i].type = t})
InList(list, p) == \E i \in 1..Len(list) : list[i] = p
\* the paths of the records of type t, in arrival order
RECURSIVE PathsOfType(_, _)
PathsOfType(recs, t) ==
  IF recs = <<>> THEN <<>>
  ELSE (IF Head(recs).type = t THEN <<Head(recs).path.toString>> ELSE <<>>)
         \o PathsOfType(Tail(recs), t)

Returned == chStatus = "returned"
Output == chResult.value

\* C4 (as amended): with one MOVE record (path P, srcPath Q) in the sequence,
\* P is in created_files and Q in deleted_files; the MOVE adds exactly one
\* entry to each of them and none to modified_files, so P or Q is in
\* modified_files only when a MODIFY record carries that path.
C4_MoveIsCreatePlusDelete ==
  (Returned /\ Count(changes, "MOVE") = 1) =>
    LET m == CHOOSE i \in 1..Len(changes) : changes[i].type = "MOVE"
        P == changes[m].path.toString
        Q == changes[m].srcPath.toString
    IN  /\ InList(Output.created_files, P)
        /\ InList(Output.deleted_files, Q)
        /\ Len(Output.created_files) = Count(changes, "ADD") + 1
        /\ Len(Output.deleted_files) = Count(changes, "DELETE") + 1
        /\ Output.modified_files = PathsOfType(changes, "MODIFY")

\* C4 as stated: neither P nor Q appears in modified_files.
C4_MoveNeverInModified ==
  (Returned /\ Count(changes, "MOVE") = 1) =>
    LET m == CHOOSE i \in 1..Len(changes) : changes[i].type = "MOVE"
        P == changes[m].path.toString
        Q == changes[m].srcPath.toString
    IN  /\ InList(Output.created_files, P)
        /\ InList(Output.deleted_files, Q)
        /\ ~InList(Output.modified_files, P)
        /\ ~InList(Output.modified_files, Q)
        /\ Len(Output.created_files) = Count(changes, "ADD") + 1
        /\ Len(Output.deleted_files) = Count(changes, "DELETE") + 1

C4_Witness ==
  /\ Returned
  /\ Len(changes) = 3
  /\ changes[1].type = "ADD" /\ changes[1].path.toString = "a"
  /\ changes[2].type = "MOVE" /\ changes[2].path.toString = "b"
  /\ changes[2].srcPath.toString = "a"
  /\ changes[3].type = "DELETE"
  /\ Output.created_files = <<"a", "b">>

OnlyAddModifyDelete == TypesOf(changes) \subseteq {"ADD", "MODIFY", "DELETE"}
ListsHolding(p) ==
  {f \in {"created_files", "modified_files", "deleted_files"} : InList(Output[f], p)}
ListOfType(t) ==
  CASE t = "ADD" -> "created_files"
    [] t = "MODIFY" -> "modified_files"
    [] t = "DELETE" -> "deleted_files"

\* C5 (as amended): for ADD/MODIFY/DELETE records, each record adds exactly
\* one entry, its path, to the list of its type and none to the others, each
\* list in arrival order; a path is in exactly one list when no record of
\* another type carries it.
C5_OneListPerRecordInOrder ==
  (Returned /\ OnlyAddModifyDelete) =>
    /\ Output.created_files = PathsOfType(changes, "ADD")
    /\ Output.modified_files = PathsOfType(changes, "MODIFY")
    /\ Output.deleted_files = PathsOfType(changes, "DELETE")
    /\ \A i \in 1..Len(changes) :
         (\A j \in 1..Len(changes) :
            changes[j].path = changes[i].path => changes[j].type = changes[i].type)
           => ListsHolding(changes[i].path.toString) = {ListOfType(changes[i].type)}

\* C5 as stated: each record's path appears in exactly one of the three lists.
C5_PathInExactlyOneList ==
  (Returned /\ OnlyAddModifyDelete) =>
    \A i \in 1..Len(changes) :
      ListsHolding(changes[i].path.toString) = {ListOfType(changes[i].type)}

C5_Witness ==
  /\ Returned
  /\ OnlyAddModifyDelete
  /\ Len(changes) = 3
  /\ Output.created_files = <<"b", "a">>
  /\ Output.deleted_files = <<"b">>

HasUnknownType == \E i \in 1..Len(changes) : changes[i].type \notin KnownChangeTypes
FirstUnknown ==
  CHOOSE i \in 1..Len(changes) :
    /\ changes[i].type \notin KnownChangeTypes
    /\ \A j \in 1..(i - 1) : changes[j].type \in KnownChangeTypes

\* C6: a record of an unknown type makes the normalization fail with the
\* unhandled-change-type error at that record: no record after it is
\* processed and nothing is returned.
C6_UnknownTypeFailsFast ==
  /\ HasUnknownType =>
       /\ chStatus # "returned"
       /\ chIdx < FirstUnknown
       /\ chResult \in {NoValue, UnhandledChangeType}
       /\ (chStatus = "running" /\ chIdx = FirstUnknown - 1) => ENABLED ReduceStep
       /\ (chStatus = "running") => ~ENABLED ReduceReturn
  /\ (chStatus = "threw") =>
       /\ HasUnknownType
       /\ chIdx = FirstUnknown - 1
       /\ chResult = UnhandledChangeType
       /\ ~ENABLED NextChanges

C6_Witness ==
  /\ chStatus = "threw"
  /\ Len(changes) = 3
  /\ chIdx = 1
  /\ git.created_files = <<"a">>
  /\ changes[3].type = "DELETE"

----------------------------------------------------------------------------
\* Properties of bitBucketServerDiffToGitStructuredDiff (SpecDiff)

DiffReturned == dStatus = "returned"
Structured == dResult.value

KnownSegmentTypes == {"ADDED", "CONTEXT", "REMOVED"}
ChangeTypeFor(t) ==
  CASE t = "ADDED" -> Str("add") [] t = "CONTEXT" -> Str("normal") [] t = "REMOVED" -> Str("del")

\* number of lines in the first k segments
RECURSIVE LinesIn(_, _)
LinesIn(segments, k) ==
  IF k = 0 THEN 0 ELSE LinesIn(segments, k - 1) + Len(segments[k].lines)

\* changes is the in-order concatenation of the segments' lines
IsFlatteningOf(chunkChanges, segments) ==
  /\ Len(chunkChanges) = LinesIn(segments, Len(segments))
  /\ \A k \in 1..Len(segments) :
       \A l \in 1..Len(segments[k].lines) :
         LET entry == chunkChanges[LinesIn(segments, k - 1) + l]
             line == segments[k].lines[l]
         IN  /\ entry.content = line.line
             /\ entry.sourceLine = line.source
             /\ entry.destinationLine = line.destination
             /\ DOMAIN entry = {"type", "content", "sourceLine", "destinationLine"}
             /\ segments[k].type \in KnownSegmentTypes =>
                  entry.type = ChangeTypeFor(segments[k].type)

\* C7: every chunk's changes are its hunk's segments' lines, segment after
\* segment and line after line, one entry per line with the line's content and
\* line numbers and the segment's type mapped ADDED->add, CONTEXT->normal,
\* REMOVED->del; there is one chunk per hunk (none when the diff has no hunks
\* field) and one entry of the result per diff.
C7_ChunksFlattenSegmentsInOrder ==
  DiffReturned =>
    /\ Len(Structured) = Len(diffs)
    /\ \A i \in 1..Len(diffs) :
         IF diffs[i].hunks = Undefined
           THEN Structured[i].chunks = Undefined
           ELSE /\ Structured[i].chunks.tag = "array"
                /\ Len(Structured[i].chunks.items) = Len(diffs[i].hunks.items)
                /\ \A j \in 1..Len(diffs[i].hunks.items) :
                     IsFlatteningOf(Structured[i].chunks.items[j].changes,
                                    diffs[i].hunks.items[j].segments)

C7_Witness ==
  /\ DiffReturned
  /\ Len(diffs) = 1
  /\ diffs[1].hunks # Undefined
  /\ Len(diffs[1].hunks.items) = 1
  /\ Len(diffs[1].hunks.items[1].segments) = 2
  /\ Structured[1].chunks.items[1].changes =
       << [type |-> Str("add"), content |-> "x", sourceLine |-> Null,
           destinationLine |-> Num(5)],
          [type |-> Str("del"), content |-> "y", sourceLine |-> Num(3),
           destinationLine |-> Null] >>

\* C8: the normalization never returns a change entry whose type is other
\* than add, del or normal: a segment of another type is rejected.
C8_UnknownSegmentTypeRejected ==
  DiffReturned =>
    \A i \in 1..Len(Structured) :
      Structured[i].chunks # Undefined =>
        \A j \in 1..Len(Structured[i].chunks.items) :
          \A e \in 1..Len(Structured[i].chunks.items[j].changes) :
            Structured[i].chunks.items[j].changes[e].type
              \in {Str("add"), Str("del"), Str("normal")}

----------------------------------------------------------------------------
\* Properties of bitBucketServerCommitToGitCommit (SpecCommit)

CommitReturned == cStatus = "returned"
GitCommit == cResult.value

\* C10: the committer of the canonical commit is always populated: without a
\* platform committer it has the author's name, email and date; with one it
\* has the committer's name and email and the date of the committer
\* timestamp.  parents are the parents' ids in order and tree is null.
C10_CommitterAlwaysPopulated ==
  CommitReturned =>
    /\ DOMAIN GitCommit.committer = {"name", "email", "date"}
    /\ IF bbsCommit.committer = Undefined
         THEN /\ GitCommit.committer.name = bbsCommit.author.name
              /\ GitCommit.committer.email = bbsCommit.author.emailAddress
              /\ GitCommit.committer.date = toISOString(bbsCommit.authorTimestamp)
              /\ GitCommit.committer = GitCommit.author
         ELSE /\ GitCommit.committer.name = bbsCommit.committer.name
              /\ GitCommit.committer.email = bbsCommit.committer.emailAddress
              /\ GitCommit.committer.date = toISOString(bbsCommit.committerTimestamp)
    /\ Len(GitCommit.parents) = Len(bbsCommit.parents)
    /\ \A i \in 1..Len(bbsCommit.parents) : GitCommit.parents[i] = bbsCommit.parents[i].id
    /\ GitCommit.tree = Null

C10_Witness ==
  /\ CommitReturned
  /\ bbsCommit.committer # Undefined
  /\ bbsCommit.committer.name = "bob" /\ bbsCommit.author.name = "ann"
  /\ bbsCommit.authorTimestamp = -1 /\ bbsCommit.committerTimestamp = 2147483647
  /\ GitCommit.parents = <<"p2", "p1">>
  /\ GitCommit.author.date =
       [year |-> 1969, month |-> 12, day |-> 31, hours |-> 23, minutes |-> 59,
        seconds |-> 59, milliseconds |-> 999]
  /\ GitCommit.committer =
       [email |-> "bob@example.com", name |-> "bob",
        date |-> [year |-> 1970, month |-> 1, day |-> 25, hours |-> 20,
                  minutes |-> 31, seconds |-> 23, milliseconds |-> 647]]

====
